---------------------------- MODULE Spec2Model ----------------------------
(***************************************************************************)
(* Traffic light controller for one four-way intersection.                 *)
(*                                                                         *)
(* The repository holds two implementations of the same finite-state       *)
(* machine:                                                                *)
(*   - simulation/simulation.cpp : the polled wall-clock driver (Arduino   *)
(*     setup()/loop(), durations in milliseconds);                         *)
(*   - src/Traffic_Controller.v  : the clock-edge driver (durations in     *)
(*     clock cycles, down-counting state_timer, asynchronous reset).       *)
(*                                                                         *)
(* A behaviour of Spec runs one of the two (variable driver, chosen in     *)
(* Init).  A behaviour of SpecPair runs both side by side on identical     *)
(* inputs, one loop() iteration per clock edge.  SpecDecide applies the    *)
(* pure next-state and output functions to arbitrary 3-bit state values.   *)
(* SpecTrace runs simulation.cpp through a scripted example: a reset,     *)
(* quiet iterations, one iteration with EW demand.                         *)
(*                                                                         *)
(* Time in the C++ controller: the code keeps stateStartTime and reads     *)
(* millis(); every decision depends only on millis() - stateStartTime.     *)
(* The model keeps that difference (sinceStateStart), saturated at         *)
(* MaxElapsed, which is above every configured duration.  The 32-bit       *)
(* wrap of millis() after 2^32 ms is outside the model.                    *)
(***************************************************************************)
EXTENDS Integers, Naturals, Sequences, FiniteSets, TLC

VARIABLES
    driver,             \* which implementation this behaviour runs
    \* ---- simulation.cpp ----
    current_state,      \* StateType current_state
    next_state,         \* StateType next_state
    sinceStateStart,    \* millis() - stateStartTime when setup()/loop() returned
    elapsedTime,        \* loop()'s local elapsedTime, as last computed
    reset_active,       \* the four input variables written by readInputs()
    emergency_active,
    ns_sensor_active,
    ew_sensor_active,
    pinOut,             \* level driven on the four light pins
    serialLast,         \* last line written to Serial
    \* ---- Traffic_Controller.v ----
    hw_current_state,   \* reg [2:0] current_state
    state_timer,        \* reg [7:0] state_timer
    reset,              \* input wires, as sampled at the last edge
    emergency,
    traffic_sensors,
    \* ---- the pure functions applied to an arbitrary state value ----
    fn_state,           \* a 3-bit state value, defined or not
    fn_inputs,          \* elapsed time, timer value and input flags
    fn_next,            \* result of the C++ next-state logic
    fn_hw_next,         \* result of the Verilog next-state logic
    fn_pins,            \* result of updateLights
    fn_light,           \* result of the Verilog output logic
    \* ---- observers (written by no statement of the program) ----
    handover,           \* what the lamps have shown since EW green was on
    script              \* position in the scripted example trace

cppVars == <<current_state, next_state, sinceStateStart, elapsedTime,
             reset_active, emergency_active, ns_sensor_active,
             ew_sensor_active, pinOut, serialLast>>
hwVars == <<hw_current_state, state_timer, reset, emergency, traffic_sensors>>
fnVars == <<fn_state, fn_inputs, fn_next, fn_hw_next, fn_pins,
            fn_light>>
obsVars == <<handover, script>>
vars == <<driver, cppVars, hwVars, fnVars, obsVars>>

---------------------------------------------------------------------------
(* Bounds of the model *)

\* sinceStateStart and elapsedTime saturate here (ms); above NS_GREEN_MS.
MaxElapsed == 10200

\* Milliseconds that may pass between two reads of millis().
Deltas == {0, 100, 500, 2000, 6000}

Min(a, b) == IF a <= b THEN a ELSE b

---------------------------------------------------------------------------
(* simulation.cpp: constants and types *)

RESET_PIN == 2
EMERGENCY_PIN == 3
SENSOR_NS1_PIN == 4
SENSOR_NS2_PIN == 5
SENSOR_EW1_PIN == 6
SENSOR_EW2_PIN == 7
LIGHT_NS_G_PIN == 8
LIGHT_NS_Y_PIN == 9
LIGHT_EW_G_PIN == 10
LIGHT_EW_Y_PIN == 11

NS_GREEN_MS == 10000
EW_GREEN_MS == 6000
YELLOW_MS == 2000
EMERGENCY_WAIT_MS == 500
INIT_MS == 100
\* delay(500) on the reset path of loop()
RESET_HOLD_MS == 500

\* enum StateType; Traffic_Controller.v uses the same encoding on 3 bits
INIT == 0
NS_GREEN == 1
NS_YELLOW == 2
EW_GREEN == 3
EW_YELLOW == 4
EMERGENCY_TRANS == 5
EMERGENCY_GREEN == 6

StateType == {INIT, NS_GREEN, NS_YELLOW, EW_GREEN, EW_YELLOW,
              EMERGENCY_TRANS, EMERGENCY_GREEN}

HIGH == TRUE
LOW == FALSE

InputPins == {RESET_PIN, EMERGENCY_PIN, SENSOR_NS1_PIN, SENSOR_NS2_PIN,
              SENSOR_EW1_PIN, SENSOR_EW2_PIN}
LightPins == {LIGHT_NS_G_PIN, LIGHT_NS_Y_PIN, LIGHT_EW_G_PIN, LIGHT_EW_Y_PIN}

\* Levels the environment may put on the input pins.
PinLevels == [InputPins -> {LOW, HIGH}]

AllOff == [p \in LightPins |-> LOW]

---------------------------------------------------------------------------
(* simulation.cpp: readInputs, the next-state logic of loop, updateLights *)

\* readInputs(): reset and emergency are active LOW, the sensors active HIGH
\* and OR-ed per approach.
readInputs(level) ==
    [reset_active     |-> (level[RESET_PIN] = LOW),
     emergency_active |-> (level[EMERGENCY_PIN] = LOW),
     ns_sensor_active |-> ((level[SENSOR_NS1_PIN] = HIGH) \/ (level[SENSOR_NS2_PIN] = HIGH)),
     ew_sensor_active |-> ((level[SENSOR_EW1_PIN] = HIGH) \/ (level[SENSOR_EW2_PIN] = HIGH))]

\* Mutant of EmergencyLogic: the NS_GREEN label is missing from the first
\* case, so next_state keeps its preset value current_state.
EmergencyLogic_NsGreenKept(cs, elapsed) ==
    CASE cs = NS_GREEN -> NS_GREEN
      [] cs = EMERGENCY_GREEN -> EMERGENCY_GREEN
      [] cs = EW_GREEN -> EW_YELLOW
      [] cs = EW_YELLOW ->
            IF elapsed >= YELLOW_MS THEN EMERGENCY_TRANS ELSE EW_YELLOW
      [] cs = EMERGENCY_TRANS ->
            IF elapsed >= EMERGENCY_WAIT_MS THEN EMERGENCY_GREEN
                                            ELSE EMERGENCY_TRANS
      [] cs = NS_YELLOW -> EMERGENCY_GREEN
      [] OTHER -> EMERGENCY_GREEN

\* Mutant of EmergencyLogic: EW_YELLOW leaves for EMERGENCY_TRANS without
\* waiting for YELLOW_MS.
EmergencyLogic_YellowNotTimed(cs, elapsed) ==
    CASE cs = NS_GREEN \/ cs = EMERGENCY_GREEN -> EMERGENCY_GREEN
      [] cs = EW_GREEN -> EW_YELLOW
      [] cs = EW_YELLOW -> EMERGENCY_TRANS
      [] cs = EMERGENCY_TRANS ->
            IF elapsed >= EMERGENCY_WAIT_MS THEN EMERGENCY_GREEN
                                            ELSE EMERGENCY_TRANS
      [] cs = NS_YELLOW -> EMERGENCY_GREEN
      [] OTHER -> EMERGENCY_GREEN

\* Mutant of EmergencyLogic: EW_GREEN goes to EMERGENCY_GREEN directly.
EmergencyLogic_EwGreenDirect(cs, elapsed) ==
    CASE cs = NS_GREEN \/ cs = EMERGENCY_GREEN -> EMERGENCY_GREEN
      [] cs = EW_GREEN -> EMERGENCY_GREEN
      [] cs = EW_YELLOW ->
            IF elapsed >= YELLOW_MS THEN EMERGENCY_TRANS ELSE EW_YELLOW
      [] cs = EMERGENCY_TRANS ->
            IF elapsed >= EMERGENCY_WAIT_MS THEN EMERGENCY_GREEN
                                            ELSE EMERGENCY_TRANS
      [] cs = NS_YELLOW -> EMERGENCY_GREEN
      [] OTHER -> EMERGENCY_GREEN

\* loop(), "Emergency Logic": switch (current_state) under emergency_active.
EmergencyLogic(cs, elapsed) ==
    CASE cs = NS_GREEN \/ cs = EMERGENCY_GREEN -> EMERGENCY_GREEN
      [] cs = EW_GREEN -> EW_YELLOW
      [] cs = EW_YELLOW ->
            IF elapsed >= YELLOW_MS THEN EMERGENCY_TRANS ELSE EW_YELLOW
      [] cs = EMERGENCY_TRANS ->
            IF elapsed >= EMERGENCY_WAIT_MS THEN EMERGENCY_GREEN
                                            ELSE EMERGENCY_TRANS
      [] cs = NS_YELLOW -> EMERGENCY_GREEN
      [] OTHER -> EMERGENCY_GREEN          \* case INIT: default:

\* Mutant of NormalLogic: EW_YELLOW is left once EMERGENCY_WAIT_MS (not
\* YELLOW_MS) has elapsed.
NormalLogic_ShortYellow(cs, elapsed, ns, ew) ==
    CASE cs = INIT ->
            IF elapsed >= INIT_MS THEN NS_GREEN ELSE cs
      [] cs = NS_GREEN ->
            IF elapsed >= NS_GREEN_MS /\ ew THEN NS_YELLOW ELSE cs
      [] cs = NS_YELLOW ->
            IF elapsed >= YELLOW_MS THEN EW_GREEN ELSE cs
      [] cs = EW_GREEN ->
            IF elapsed >= EW_GREEN_MS /\ ns THEN EW_YELLOW ELSE cs
      [] cs = EW_YELLOW ->
            IF elapsed >= EMERGENCY_WAIT_MS THEN NS_GREEN ELSE cs
      [] cs = EMERGENCY_TRANS -> NS_GREEN
      [] cs = EMERGENCY_GREEN -> NS_GREEN
      [] OTHER -> INIT

\* Mutant of NormalLogic: the green phases end on the timer alone (the
\* "max time" variant the comments of loop() mention), whatever the demand.
NormalLogic_TimerOnly(cs, elapsed, ns, ew) ==
    CASE cs = INIT ->
            IF elapsed >= INIT_MS THEN NS_GREEN ELSE cs
      [] cs = NS_GREEN ->
            IF elapsed >= NS_GREEN_MS THEN NS_YELLOW ELSE cs
      [] cs = NS_YELLOW ->
            IF elapsed >= YELLOW_MS THEN EW_GREEN ELSE cs
      [] cs = EW_GREEN ->
            IF elapsed >= EW_GREEN_MS THEN EW_YELLOW ELSE cs
      [] cs = EW_YELLOW ->
            IF elapsed >= YELLOW_MS THEN NS_GREEN ELSE cs
      [] cs = EMERGENCY_TRANS -> NS_GREEN
      [] cs = EMERGENCY_GREEN -> NS_GREEN
      [] OTHER -> INIT

\* Mutant of NormalLogic: NS_YELLOW returns to NS_GREEN (the target of the
\* EW_YELLOW case) instead of giving EW the green.
NormalLogic_YellowBack(cs, elapsed, ns, ew) ==
    CASE cs = INIT ->
            IF elapsed >= INIT_MS THEN NS_GREEN ELSE cs
      [] cs = NS_GREEN ->
            IF elapsed >= NS_GREEN_MS /\ ew THEN NS_YELLOW ELSE cs
      [] cs = NS_YELLOW ->
            IF elapsed >= YELLOW_MS THEN NS_GREEN ELSE cs
      [] cs = EW_GREEN ->
            IF elapsed >= EW_GREEN_MS /\ ns THEN EW_YELLOW ELSE cs
      [] cs = EW_YELLOW ->
            IF elapsed >= YELLOW_MS THEN NS_GREEN ELSE cs
      [] cs = EMERGENCY_TRANS -> NS_GREEN
      [] cs = EMERGENCY_GREEN -> NS_GREEN
      [] OTHER -> INIT

\* Mutant of NormalLogic: leaving EMERGENCY_GREEN restarts the cycle at INIT.
NormalLogic_ResumeAtInit(cs, elapsed, ns, ew) ==
    CASE cs = INIT ->
            IF elapsed >= INIT_MS THEN NS_GREEN ELSE cs
      [] cs = NS_GREEN ->
            IF elapsed >= NS_GREEN_MS /\ ew THEN NS_YELLOW ELSE cs
      [] cs = NS_YELLOW ->
            IF elapsed >= YELLOW_MS THEN EW_GREEN ELSE cs
      [] cs = EW_GREEN ->
            IF elapsed >= EW_GREEN_MS /\ ns THEN EW_YELLOW ELSE cs
      [] cs = EW_YELLOW ->
            IF elapsed >= YELLOW_MS THEN NS_GREEN ELSE cs
      [] cs = EMERGENCY_TRANS -> NS_GREEN
      [] cs = EMERGENCY_GREEN -> INIT
      [] OTHER -> INIT

\* Mutant of NormalLogic: the switch has no default, so for an undefined
\* state next_state keeps its preset value current_state.
NormalLogic_NoDefault(cs, elapsed, ns, ew) ==
    CASE cs = INIT ->
            IF elapsed >= INIT_MS THEN NS_GREEN ELSE cs
      [] cs = NS_GREEN ->
            IF elapsed >= NS_GREEN_MS /\ ew THEN NS_YELLOW ELSE cs
      [] cs = NS_YELLOW ->
            IF elapsed >= YELLOW_MS THEN EW_GREEN ELSE cs
      [] cs = EW_GREEN ->
            IF elapsed >= EW_GREEN_MS /\ ns THEN EW_YELLOW ELSE cs
      [] cs = EW_YELLOW ->
            IF elapsed >= YELLOW_MS THEN NS_GREEN ELSE cs
      [] cs = EMERGENCY_TRANS -> NS_GREEN
      [] cs = EMERGENCY_GREEN -> NS_GREEN
      [] OTHER -> cs

\* Mutant of NormalLogic: NS_GREEN is left only after more than NS_GREEN_MS.
NormalLogic_LateNsGreen(cs, elapsed, ns, ew) ==
    CASE cs = INIT ->
            IF elapsed >= INIT_MS THEN NS_GREEN ELSE cs
      [] cs = NS_GREEN ->
            IF elapsed > NS_GREEN_MS /\ ew THEN NS_YELLOW ELSE cs
      [] cs = NS_YELLOW ->
            IF elapsed >= YELLOW_MS THEN EW_GREEN ELSE cs
      [] cs = EW_GREEN ->
            IF elapsed >= EW_GREEN_MS /\ ns THEN EW_YELLOW ELSE cs
      [] cs = EW_YELLOW ->
            IF elapsed >= YELLOW_MS THEN NS_GREEN ELSE cs
      [] cs = EMERGENCY_TRANS -> NS_GREEN
      [] cs = EMERGENCY_GREEN -> NS_GREEN
      [] OTHER -> INIT

\* Mutant of NormalLogic: the cycle restarts through INIT after EW_YELLOW.
NormalLogic_CycleViaInit(cs, elapsed, ns, ew) ==
    CASE cs = INIT ->
            IF elapsed >= INIT_MS THEN NS_GREEN ELSE cs
      [] cs = NS_GREEN ->
            IF elapsed >= NS_GREEN_MS /\ ew THEN NS_YELLOW ELSE cs
      [] cs = NS_YELLOW ->
            IF elapsed >= YELLOW_MS THEN EW_GREEN ELSE cs
      [] cs = EW_GREEN ->
            IF elapsed >= EW_GREEN_MS /\ ns THEN EW_YELLOW ELSE cs
      [] cs = EW_YELLOW ->
            IF elapsed >= YELLOW_MS THEN INIT ELSE cs
      [] cs = EMERGENCY_TRANS -> NS_GREEN
      [] cs = EMERGENCY_GREEN -> NS_GREEN
      [] OTHER -> INIT

\* Mutant of NormalLogic: NS_YELLOW is left without testing the timer.
NormalLogic_NsYellowNotTimed(cs, elapsed, ns, ew) ==
    CASE cs = INIT ->
            IF elapsed >= INIT_MS THEN NS_GREEN ELSE cs
      [] cs = NS_GREEN ->
            IF elapsed >= NS_GREEN_MS /\ ew THEN NS_YELLOW ELSE cs
      [] cs = NS_YELLOW -> EW_GREEN
      [] cs = EW_GREEN ->
            IF elapsed >= EW_GREEN_MS /\ ns THEN EW_YELLOW ELSE cs
      [] cs = EW_YELLOW ->
            IF elapsed >= YELLOW_MS THEN NS_GREEN ELSE cs
      [] cs = EMERGENCY_TRANS -> NS_GREEN
      [] cs = EMERGENCY_GREEN -> NS_GREEN
      [] OTHER -> INIT

\* Mutant of NormalLogic: EMERGENCY_TRANS is left only after EMERGENCY_WAIT_MS.
NormalLogic_TransTimed(cs, elapsed, ns, ew) ==
    CASE cs = INIT ->
            IF elapsed >= INIT_MS THEN NS_GREEN ELSE cs
      [] cs = NS_GREEN ->
            IF elapsed >= NS_GREEN_MS /\ ew THEN NS_YELLOW ELSE cs
      [] cs = NS_YELLOW ->
            IF elapsed >= YELLOW_MS THEN EW_GREEN ELSE cs
      [] cs = EW_GREEN ->
            IF elapsed >= EW_GREEN_MS /\ ns THEN EW_YELLOW ELSE cs
      [] cs = EW_YELLOW ->
            IF elapsed >= YELLOW_MS THEN NS_GREEN ELSE cs
      [] cs = EMERGENCY_TRANS ->
            IF elapsed >= EMERGENCY_WAIT_MS THEN NS_GREEN ELSE cs
      [] cs = EMERGENCY_GREEN -> NS_GREEN
      [] OTHER -> INIT

\* loop(), "Normal Operation Logic": switch (current_state) otherwise.
\* next_state was preset to current_state, so a failed test keeps cs.
NormalLogic(cs, elapsed, ns, ew) ==
    CASE cs = INIT ->
            IF elapsed >= INIT_MS THEN NS_GREEN ELSE cs
      [] cs = NS_GREEN ->
            IF elapsed >= NS_GREEN_MS /\ ew THEN NS_YELLOW ELSE cs
      [] cs = NS_YELLOW ->
            IF elapsed >= YELLOW_MS THEN EW_GREEN ELSE cs
      [] cs = EW_GREEN ->
            IF elapsed >= EW_GREEN_MS /\ ns THEN EW_YELLOW ELSE cs
      [] cs = EW_YELLOW ->
            IF elapsed >= YELLOW_MS THEN NS_GREEN ELSE cs
      [] cs = EMERGENCY_TRANS -> NS_GREEN
      [] cs = EMERGENCY_GREEN -> NS_GREEN
      [] OTHER -> INIT                     \* default: "Should not happen"

\* loop(), step 3: the value of next_state when step 4 is reached.
\* Mutant of NextStateLogic: in EW_GREEN a pending EW demand is served
\* before the emergency.
NextStateLogic_DemandFirst(cs, elapsed, em, ns, ew) ==
    IF em /\ ~(cs = EW_GREEN /\ ew)
          THEN EmergencyLogic(cs, elapsed)
          ELSE NormalLogic(cs, elapsed, ns, ew)

NextStateLogic(cs, elapsed, em, ns, ew) ==
    IF em THEN EmergencyLogic(cs, elapsed)
          ELSE NormalLogic(cs, elapsed, ns, ew)

\* The one light pin updateLights() raises for a state, if any.
LightPinFor(cs) ==
    CASE cs = NS_GREEN \/ cs = EMERGENCY_GREEN -> {LIGHT_NS_G_PIN}
      [] cs = NS_YELLOW -> {LIGHT_NS_Y_PIN}
      [] cs = EW_GREEN -> {LIGHT_EW_G_PIN}
      [] cs = EW_YELLOW \/ cs = EMERGENCY_TRANS -> {LIGHT_EW_Y_PIN}
      [] OTHER -> {}                       \* case INIT: default:

\* Mutant of updateLights: the pins are not driven LOW first.
updateLights_NoClear(level, cs) ==
    [p \in LightPins |-> IF p \in LightPinFor(cs) THEN HIGH ELSE level[p]]

\* updateLights(): the four digitalWrite(.., LOW), then the pin of the state
\* HIGH.  level is the level of the light pins when it is called.
updateLights(level, cs) ==
    LET allLow == [p \in LightPins |-> LOW]
    IN  [p \in LightPins |-> IF p \in LightPinFor(cs) THEN HIGH ELSE allLow[p]]

---------------------------------------------------------------------------
(* Traffic_Controller.v *)

NS_GREEN_CYCLES == 100
EW_GREEN_CYCLES == 60
YELLOW_CYCLES == 20
EMERGENCY_WAIT == 5

\* Bit i of the value v of a vector.
Bit(v, i) == (v \div (2 ^ i)) % 2

SensorValues == [0..3 -> {0, 1}]

\* wire ns_sensor_active = traffic_sensors[1] | traffic_sensors[0];
hw_ns_sensor_active(sensors) == IF sensors[1] = 1 \/ sensors[0] = 1 THEN 1 ELSE 0
\* wire ew_sensor_active = traffic_sensors[3] | traffic_sensors[2];
hw_ew_sensor_active(sensors) == IF sensors[3] = 1 \/ sensors[2] = 1 THEN 1 ELSE 0

\* "Next State Logic (Combinational)": next_state from current_state,
\* state_timer and the inputs.
hw_next_state(cs, timer, em, sensors) ==
    IF em = 1
    THEN CASE cs = NS_GREEN \/ cs = EMERGENCY_GREEN -> EMERGENCY_GREEN
           [] cs = EW_GREEN -> EW_YELLOW
           [] cs = EW_YELLOW -> EMERGENCY_TRANS
           [] cs = NS_YELLOW -> EMERGENCY_GREEN
           [] cs = EMERGENCY_TRANS -> EMERGENCY_GREEN
           [] cs = INIT -> EMERGENCY_GREEN
           [] OTHER -> EMERGENCY_GREEN
    ELSE CASE cs = INIT -> NS_GREEN
           [] cs = NS_GREEN ->
                IF timer = 0 /\ hw_ew_sensor_active(sensors) = 1
                THEN NS_YELLOW ELSE cs
           [] cs = NS_YELLOW -> IF timer = 0 THEN EW_GREEN ELSE cs
           [] cs = EW_GREEN ->
                IF timer = 0 /\ hw_ns_sensor_active(sensors) = 1
                THEN EW_YELLOW ELSE cs
           [] cs = EW_YELLOW -> IF timer = 0 THEN NS_GREEN ELSE cs
           [] cs = EMERGENCY_TRANS -> IF timer = 0 THEN NS_GREEN ELSE cs
           [] cs = EMERGENCY_GREEN -> NS_GREEN
           [] OTHER -> INIT

\* The value loaded into state_timer when the state changes to nx.
timer_load(nx) ==
    CASE nx = NS_GREEN -> NS_GREEN_CYCLES - 1
      [] nx = EW_GREEN -> EW_GREEN_CYCLES - 1
      [] nx = NS_YELLOW -> YELLOW_CYCLES - 1
      [] nx = EW_YELLOW -> YELLOW_CYCLES - 1
      [] nx = EMERGENCY_TRANS -> EMERGENCY_WAIT - 1
      [] nx = EMERGENCY_GREEN -> 1
      [] nx = INIT -> 1
      [] OTHER -> 1

\* "Output Logic (Combinational)": light[3]:EW_Y, [2]:EW_G, [1]:NS_Y, [0]:NS_G
light(cs) ==
    CASE cs = NS_GREEN -> 1            \* 4'b0001
      [] cs = NS_YELLOW -> 2           \* 4'b0010
      [] cs = EW_GREEN -> 4            \* 4'b0100
      [] cs = EW_YELLOW -> 8           \* 4'b1000
      [] cs = EMERGENCY_TRANS -> 8     \* 4'b1000
      [] cs = EMERGENCY_GREEN -> 1     \* 4'b0001
      [] cs = INIT -> 0                \* 4'b0000
      [] OTHER -> 0                    \* 4'b0000

---------------------------------------------------------------------------
(* Initial states *)

\* simulation.cpp after setup(): state INIT, stateStartTime = millis(),
\* updateLights() called once.
InitCpp ==
    /\ current_state = INIT
    /\ next_state = INIT
    /\ sinceStateStart = 0
    /\ elapsedTime = 0
    /\ reset_active = FALSE
    /\ emergency_active = FALSE
    /\ ns_sensor_active = FALSE
    /\ ew_sensor_active = FALSE
    /\ pinOut = updateLights([p \in LightPins |-> LOW], INIT)
    /\ serialLast = <<"Initialization Complete. Starting FSM.">>

\* Traffic_Controller.v under the reset the test bench asserts at time 0.
InitHw ==
    /\ hw_current_state = INIT
    /\ state_timer = 0
    /\ reset = 1
    /\ emergency = 0
    /\ traffic_sensors = [i \in 0..3 |-> 0]

\* Arguments the pure functions are applied to.
FnStates == 0..7
FnElapsed == {0, 99, 100, 499, 500, 1999, 2000, 5999, 6000, 9999, 10000}
FnTimers == {0, 1, 99}
FnLevels == {[p \in LightPins |-> q = p] : q \in LightPins \cup {0}}
FnInputs == [elapsed : FnElapsed, timer : FnTimers, em : BOOLEAN,
             ns : BOOLEAN, ew : BOOLEAN, level : FnLevels]
\* A result not computed yet; a computed result v is held as <<v>>.
NoResult == <<>>

FnIdle ==
    /\ fn_state = INIT
    /\ fn_inputs = [elapsed |-> 0, timer |-> 0, em |-> FALSE, ns |-> FALSE,
                    ew |-> FALSE, level |-> [p \in LightPins |-> LOW]]
    /\ fn_next = NoResult
    /\ fn_hw_next = NoResult
    /\ fn_pins = NoResult
    /\ fn_light = NoResult

\* The observers before anything has been shown.
ObsIdle ==
    /\ handover = "none"
    /\ script = "off"

Init ==
    /\ driver \in {"cpp", "hw"}
    /\ InitCpp
    /\ InitHw
    /\ FnIdle
    /\ ObsIdle

---------------------------------------------------------------------------
(* simulation.cpp: loop() *)

\* What readInputs() can store for the levels the pins can have.
InputSamples == {readInputs(level) : level \in PinLevels}

\* Mutant of resetPath: the state is forced to INIT but the lights are left
\* as they were.
resetPath_LightsKept ==
    /\ current_state' = INIT
    /\ sinceStateStart' = Min(RESET_HOLD_MS, MaxElapsed)
    /\ serialLast' = <<"RESET Activated!">>
    /\ UNCHANGED <<pinOut, next_state, elapsedTime>>

\* loop(), step 2, "if (reset_active)": force INIT, restart the timer, update
\* the lights, delay(500) and return; steps 3 and 4 are skipped.
resetPath ==
    /\ current_state' = INIT
    /\ sinceStateStart' = Min(RESET_HOLD_MS, MaxElapsed)
    /\ pinOut' = updateLights(pinOut, INIT)
    /\ serialLast' = <<"RESET Activated!">>
    /\ UNCHANGED <<next_state, elapsedTime>>

\* Mutant of loopBody: a state change does not restart the timer of the state.
loopBody_TimerNotRestarted(in, d) ==
        /\ reset_active' = in.reset_active
        /\ emergency_active' = in.emergency_active
        /\ ns_sensor_active' = in.ns_sensor_active
        /\ ew_sensor_active' = in.ew_sensor_active
        /\ IF in.reset_active
           THEN resetPath
           ELSE LET elapsed == Min(sinceStateStart + d, MaxElapsed)
                    nx == NextStateLogic(current_state, elapsed,
                                         in.emergency_active,
                                         in.ns_sensor_active,
                                         in.ew_sensor_active)
                IN  /\ elapsedTime' = elapsed
                    /\ next_state' = nx
                    /\ IF nx # current_state
                       THEN \* step 4: commit, restart the timer, lights
                            /\ current_state' = nx
                            /\ sinceStateStart' = elapsed
                            /\ pinOut' = updateLights(pinOut, nx)
                            /\ serialLast' = <<"State Change: ", current_state, nx>>
                       ELSE /\ sinceStateStart' = elapsed
                            /\ UNCHANGED <<current_state, pinOut, serialLast>>

\* Mutant of loopBody: updateLights() runs before current_state is assigned.
loopBody_LightsBeforeCommit(in, d) ==
        /\ reset_active' = in.reset_active
        /\ emergency_active' = in.emergency_active
        /\ ns_sensor_active' = in.ns_sensor_active
        /\ ew_sensor_active' = in.ew_sensor_active
        /\ IF in.reset_active
           THEN resetPath
           ELSE LET elapsed == Min(sinceStateStart + d, MaxElapsed)
                    nx == NextStateLogic(current_state, elapsed,
                                         in.emergency_active,
                                         in.ns_sensor_active,
                                         in.ew_sensor_active)
                IN  /\ elapsedTime' = elapsed
                    /\ next_state' = nx
                    /\ IF nx # current_state
                       THEN \* step 4: commit, restart the timer, lights
                            /\ current_state' = nx
                            /\ sinceStateStart' = 0
                            /\ pinOut' = updateLights(pinOut, current_state)
                            /\ serialLast' = <<"State Change: ", current_state, nx>>
                       ELSE /\ sinceStateStart' = elapsed
                            /\ UNCHANGED <<current_state, pinOut, serialLast>>

\* One iteration of loop().  in: what readInputs() stored;
\* d: milliseconds between the previous return and this read of millis().
loopBody(in, d) ==
        /\ reset_active' = in.reset_active
        /\ emergency_active' = in.emergency_active
        /\ ns_sensor_active' = in.ns_sensor_active
        /\ ew_sensor_active' = in.ew_sensor_active
        /\ IF in.reset_active
           THEN resetPath
           ELSE LET elapsed == Min(sinceStateStart + d, MaxElapsed)
                    nx == NextStateLogic(current_state, elapsed,
                                         in.emergency_active,
                                         in.ns_sensor_active,
                                         in.ew_sensor_active)
                IN  /\ elapsedTime' = elapsed
                    /\ next_state' = nx
                    /\ IF nx # current_state
                       THEN \* step 4: commit, restart the timer, lights
                            /\ current_state' = nx
                            /\ sinceStateStart' = 0
                            /\ pinOut' = updateLights(pinOut, nx)
                            /\ serialLast' = <<"State Change: ", current_state, nx>>
                       ELSE /\ sinceStateStart' = elapsed
                            /\ UNCHANGED <<current_state, pinOut, serialLast>>

\* What an observer of the lamps records over one iteration of loop(), from
\* the lamps before and after it:
\*   "pending" : the EW green lamp has been on, and since then neither a
\*               reset nor YELLOW_MS of EW yellow has been seen;
\*   "cleared" : since the EW green lamp was on, the EW yellow lamp has been
\*               on for YELLOW_MS or more (the lamp was on before this
\*               iteration and elapsedTime, measured from the moment it came
\*               on, has reached YELLOW_MS);
\*   "reset"   : a reset was seen while "pending";
\*   "none"    : the NS green lamp was on before this iteration, or the EW
\*               green lamp has never been on.
observeLamps ==
    handover' =
        IF pinOut'[LIGHT_EW_G_PIN] = HIGH THEN "pending"
        ELSE IF pinOut[LIGHT_NS_G_PIN] = HIGH THEN "none"
        ELSE IF handover # "pending" THEN handover
        ELSE IF reset_active' THEN "reset"
        ELSE IF pinOut[LIGHT_EW_Y_PIN] = HIGH /\ elapsedTime' >= YELLOW_MS
             THEN "cleared"
        ELSE "pending"

loop ==
    /\ driver = "cpp"
    /\ \E in \in InputSamples, d \in Deltas : loopBody(in, d)
    /\ observeLamps
    /\ UNCHANGED <<driver, hwVars, fnVars, script>>

---------------------------------------------------------------------------
(* Traffic_Controller.v: the state register *)

\* always @(posedge clk or posedge reset), with the inputs r, e, s.
registerBody(r, e, s) ==
    /\ reset' = r
    /\ emergency' = e
    /\ traffic_sensors' = s
    /\ IF r = 1
       THEN /\ hw_current_state' = INIT
            /\ state_timer' = 0
       ELSE LET nx == hw_next_state(hw_current_state, state_timer, e, s)
            IN  /\ hw_current_state' = nx
                /\ state_timer' =
                      IF nx # hw_current_state THEN timer_load(nx)
                      ELSE IF state_timer # 0 THEN state_timer - 1
                      ELSE state_timer

posedge_clk ==
    /\ driver = "hw"
    /\ \E r \in {0, 1}, e \in {0, 1}, s \in SensorValues : registerBody(r, e, s)
    /\ UNCHANGED <<driver, cppVars, fnVars, obsVars>>

\* The asynchronous reset: reset rises between two clock edges.
posedge_reset ==
    /\ driver = "hw"
    /\ reset = 0
    /\ registerBody(1, emergency, traffic_sensors)
    /\ UNCHANGED <<driver, cppVars, fnVars, obsVars>>

Next == loop \/ posedge_clk \/ posedge_reset

Spec == Init /\ [][Next]_vars

\* An iteration of loop() before which the clock has advanced.
loopAdvance ==
    /\ driver = "cpp"
    /\ \E in \in InputSamples, d \in Deltas \ {0} : loopBody(in, d)
    /\ observeLamps
    /\ UNCHANGED <<driver, hwVars, fnVars, script>>

\* loop() is called again and again while millis() advances, and clk keeps
\* toggling; the inputs are free.
SpecLive == Spec /\ WF_vars(loopAdvance) /\ WF_vars(posedge_clk)

---------------------------------------------------------------------------
(* The two controllers side by side *)

\* Milliseconds that one clock cycle stands for: the durations of
\* simulation.cpp are those of Traffic_Controller.v times this.
MsPerCycle == NS_GREEN_MS \div NS_GREEN_CYCLES

\* The pin levels that present the inputs r, e, s of Traffic_Controller.v to
\* simulation.cpp: traffic_sensors is [3]:EW2, [2]:EW1, [1]:NS2, [0]:NS1.
pinsFor(r, e, s) ==
    [p \in InputPins |->
        CASE p = RESET_PIN -> IF r = 1 THEN LOW ELSE HIGH
          [] p = EMERGENCY_PIN -> IF e = 1 THEN LOW ELSE HIGH
          [] p = SENSOR_NS1_PIN -> IF s[0] = 1 THEN HIGH ELSE LOW
          [] p = SENSOR_NS2_PIN -> IF s[1] = 1 THEN HIGH ELSE LOW
          [] p = SENSOR_EW1_PIN -> IF s[2] = 1 THEN HIGH ELSE LOW
          [] p = SENSOR_EW2_PIN -> IF s[3] = 1 THEN HIGH ELSE LOW]

\* Sensor vectors tried side by side: the first sensor of each approach.
PairSensors == {s \in SensorValues : s[1] = 0 /\ s[3] = 0}

InitPair ==
    /\ driver = "pair"
    /\ InitCpp
    /\ InitHw
    /\ FnIdle
    /\ ObsIdle

\* One tick of both: a clock edge, and an iteration of loop() one cycle's
\* time after the previous one, on the same inputs.
tick ==
    /\ driver = "pair"
    /\ \E r \in {0, 1}, e \in {0, 1}, s \in PairSensors :
          /\ loopBody(readInputs(pinsFor(r, e, s)), MsPerCycle)
          /\ registerBody(r, e, s)
    /\ observeLamps
    /\ UNCHANGED <<driver, fnVars, script>>

SpecPair == InitPair /\ [][tick]_vars

---------------------------------------------------------------------------
(* A scripted run of simulation.cpp: reset, quiet ticks, one demand tick *)

\* Milliseconds between the iterations of the scripted phases; 1 and 99
\* bring the clock to NS_GREEN_MS - 1 and to NS_GREEN_MS.
TraceDeltas == {1, 99, 900, 3000}

InitTrace ==
    /\ driver = "trace"
    /\ InitCpp
    /\ InitHw
    /\ FnIdle
    /\ handover = "none"
    /\ script = "start"

\* Any iterations of loop() before the reset is requested.
tracePrelude ==
    /\ driver = "trace" /\ script = "start"
    /\ \E in \in InputSamples, d \in Deltas : loopBody(in, d)
    /\ observeLamps
    /\ UNCHANGED <<driver, hwVars, fnVars, script>>

\* The iteration that finds RESET_PIN low.
traceReset ==
    /\ driver = "trace" /\ script = "start"
    /\ \E in \in InputSamples, d \in Deltas :
          in.reset_active /\ loopBody(in, d)
    /\ observeLamps
    /\ script' = "reset"
    /\ UNCHANGED <<driver, hwVars, fnVars>>

\* An iteration that finds no input asserted, while the clock of the state
\* stays below NS_GREEN_MS.
traceQuiet ==
    /\ driver = "trace" /\ script \in {"reset", "quiet"}
    /\ \E in \in InputSamples, d \in TraceDeltas :
          /\ ~in.reset_active /\ ~in.emergency_active
          /\ ~in.ns_sensor_active /\ ~in.ew_sensor_active
          /\ script = "quiet" => sinceStateStart + d <= NS_GREEN_MS - 1
          /\ loopBody(in, d)
    /\ observeLamps
    /\ script' = "quiet"
    /\ UNCHANGED <<driver, hwVars, fnVars>>

\* The iteration that finds an EW sensor high when the clock of the state
\* reads NS_GREEN_MS.
traceDemand ==
    /\ driver = "trace" /\ script = "quiet"
    /\ \E in \in InputSamples, d \in TraceDeltas :
          /\ ~in.reset_active /\ ~in.emergency_active /\ in.ew_sensor_active
          /\ sinceStateStart + d = NS_GREEN_MS
          /\ loopBody(in, d)
    /\ observeLamps
    /\ script' = "demand"
    /\ UNCHANGED <<driver, hwVars, fnVars>>

SpecTrace ==
    InitTrace
    /\ [][tracePrelude \/ traceReset \/ traceQuiet \/ traceDemand]_vars

---------------------------------------------------------------------------
(* The next-state and output functions on an arbitrary state value *)

InitDecide ==
    /\ driver = "fn"
    /\ InitCpp
    /\ InitHw
    /\ fn_state \in FnStates
    /\ fn_inputs \in FnInputs
    /\ fn_next = NoResult
    /\ fn_hw_next = NoResult
    /\ fn_pins = NoResult
    /\ fn_light = NoResult
    /\ ObsIdle

\* Apply loop()'s next-state logic, updateLights(), and the next-state and
\* output logic of Traffic_Controller.v to fn_state.
decide ==
    /\ driver = "fn"
    /\ fn_next = NoResult
    /\ fn_next' = <<NextStateLogic(fn_state, fn_inputs.elapsed, fn_inputs.em,
                                   fn_inputs.ns, fn_inputs.ew)>>
    /\ fn_pins' = <<updateLights(fn_inputs.level, fn_state)>>
    /\ fn_hw_next' = <<hw_next_state(fn_state, fn_inputs.timer,
                                     IF fn_inputs.em THEN 1 ELSE 0,
                                     [i \in 0..3 |->
                                        IF (i = 0 /\ fn_inputs.ns) \/
                                           (i = 2 /\ fn_inputs.ew)
                                        THEN 1 ELSE 0])>>
    /\ fn_light' = <<light(fn_state)>>
    /\ UNCHANGED <<driver, cppVars, hwVars, fn_state, fn_inputs, obsVars>>

SpecDecide == InitDecide /\ [][decide]_vars

---------------------------------------------------------------------------
(* Properties *)

\* The configured duration of a state ("State Durations"); EMERGENCY_GREEN
\* has none.
Duration(cs) ==
    CASE cs = NS_GREEN -> NS_GREEN_MS
      [] cs = EW_GREEN -> EW_GREEN_MS
      [] cs = NS_YELLOW \/ cs = EW_YELLOW -> YELLOW_MS
      [] cs = EMERGENCY_TRANS -> EMERGENCY_WAIT_MS
      [] cs = INIT -> INIT_MS
      [] OTHER -> 0

NsGreenOnly == [p \in LightPins |-> IF p = LIGHT_NS_G_PIN THEN HIGH ELSE LOW]

\* A step of loop() that did not take the reset path.
CppTick == driver = "cpp" /\ ~reset_active'
\* A clock edge with reset low.
HwTick == driver = "hw" /\ reset' = 0

\* C1 (mutual exclusion): in every reachable state of either controller at
\* most one of the two green lamps and at most one of the two yellow lamps
\* is on, and in state INIT all four lamps are off.
C1_MutualExclusion ==
    /\ ~(pinOut[LIGHT_NS_G_PIN] = HIGH /\ pinOut[LIGHT_EW_G_PIN] = HIGH)
    /\ ~(pinOut[LIGHT_NS_Y_PIN] = HIGH /\ pinOut[LIGHT_EW_Y_PIN] = HIGH)
    /\ (current_state = INIT => pinOut = AllOff)
    /\ LET l == light(hw_current_state)
       IN  /\ ~(Bit(l, 0) = 1 /\ Bit(l, 2) = 1)
           /\ ~(Bit(l, 1) = 1 /\ Bit(l, 3) = 1)
           /\ (hw_current_state = INIT => l = 0)

\* Witness of C1: the green has passed from NS to EW and only the EW green
\* lamp is on.
C1_Witness ==
    /\ serialLast = <<"State Change: ", NS_YELLOW, EW_GREEN>>
    /\ pinOut = [p \in LightPins |-> IF p = LIGHT_EW_G_PIN THEN HIGH ELSE LOW]

\* C2 as stated: a tick with reset requested leaves state INIT, the phase
\* clock at 0 and all lamps off, and does not evaluate the two branches.
C2_ResetClockZero ==
    [][(driver = "cpp" /\ reset_active') =>
            /\ current_state' = INIT
            /\ sinceStateStart' = 0
            /\ pinOut' = AllOff
            /\ UNCHANGED <<next_state, elapsedTime>>]_vars

\* C2 (reset dominance), amended: whatever the state and the other inputs, a
\* tick with reset requested leaves state INIT with all lamps off and does
\* not evaluate the emergency or the normal branch.  In loop() the timer is
\* restarted and the reset path then waits RESET_HOLD_MS, so the phase clock
\* reads RESET_HOLD_MS when the tick returns; in Traffic_Controller.v
\* state_timer is 0.
C2_ResetDominance ==
    [][/\ (driver = "cpp" /\ reset_active') =>
            /\ current_state' = INIT
            /\ sinceStateStart' = RESET_HOLD_MS
            /\ pinOut' = AllOff
            /\ UNCHANGED <<next_state, elapsedTime>>
       /\ (driver = "hw" /\ reset' = 1) =>
            /\ hw_current_state' = INIT
            /\ state_timer' = 0
            /\ light(hw_current_state') = 0]_vars

\* Witness of C2: a reset taken while an emergency was requested and the EW
\* lamps were in use.
C2_Witness ==
    /\ reset_active /\ emergency_active /\ ns_sensor_active /\ ew_sensor_active
    /\ current_state = INIT
    /\ next_state = EW_YELLOW
    /\ pinOut = AllOff

\* C3 as stated: a tick without reset never changes the state before the
\* configured duration of the state has elapsed.
C3_DwellEveryState ==
    [][(CppTick /\ current_state' # current_state) =>
            elapsedTime' >= Duration(current_state)]_vars

\* C3 (minimum dwell), amended: a tick without reset and without emergency
\* never leaves INIT, NS_GREEN, NS_YELLOW, EW_GREEN or EW_YELLOW before the
\* state's duration has elapsed, and a tick with emergency never leaves
\* EW_YELLOW or EMERGENCY_TRANS before theirs has.  The other changes are
\* not timed: a tick with emergency always leaves INIT, NS_GREEN, NS_YELLOW
\* and EW_GREEN, and a tick without emergency always leaves EMERGENCY_TRANS.
C3_MinimumDwell ==
    [][/\ (CppTick /\ current_state' # current_state) =>
            /\ (~emergency_active' /\ current_state \in
                    {INIT, NS_GREEN, NS_YELLOW, EW_GREEN, EW_YELLOW})
                 => elapsedTime' >= Duration(current_state)
            /\ (emergency_active' /\ current_state \in
                    {EW_YELLOW, EMERGENCY_TRANS})
                 => elapsedTime' >= Duration(current_state)
       /\ (CppTick /\ emergency_active' /\ current_state \in
                    {INIT, NS_GREEN, NS_YELLOW, EW_GREEN})
            => current_state' # current_state
       /\ (CppTick /\ ~emergency_active' /\ current_state = EMERGENCY_TRANS)
            => current_state' = NS_GREEN]_vars

\* Witness of C3: EW_YELLOW was left on the tick where exactly YELLOW_MS had
\* elapsed.
C3_Witness ==
    /\ serialLast = <<"State Change: ", EW_YELLOW, NS_GREEN>>
    /\ elapsedTime = YELLOW_MS
    /\ ~emergency_active

\* C4 (demand gating): on a tick without reset and emergency, NS_GREEN
\* becomes NS_YELLOW if its duration has elapsed and there is EW demand and
\* is kept otherwise; EW_GREEN becomes EW_YELLOW if its duration has
\* elapsed and there is NS demand and is kept otherwise.  In
\* Traffic_Controller.v "its duration has elapsed" is state_timer = 0.
C4_DemandGating ==
    [][/\ (CppTick /\ ~emergency_active') =>
            /\ current_state = NS_GREEN =>
                 current_state' =
                    IF elapsedTime' >= NS_GREEN_MS /\ ew_sensor_active'
                    THEN NS_YELLOW ELSE NS_GREEN
            /\ current_state = EW_GREEN =>
                 current_state' =
                    IF elapsedTime' >= EW_GREEN_MS /\ ns_sensor_active'
                    THEN EW_YELLOW ELSE EW_GREEN
       /\ (HwTick /\ emergency' = 0) =>
            /\ hw_current_state = NS_GREEN =>
                 hw_current_state' =
                    IF state_timer = 0 /\
                       (traffic_sensors'[2] = 1 \/ traffic_sensors'[3] = 1)
                    THEN NS_YELLOW ELSE NS_GREEN
            /\ hw_current_state = EW_GREEN =>
                 hw_current_state' =
                    IF state_timer = 0 /\
                       (traffic_sensors'[0] = 1 \/ traffic_sensors'[1] = 1)
                    THEN EW_YELLOW ELSE EW_GREEN]_vars

\* Witness of C4: NS_GREEN was held beyond its duration for lack of EW
\* demand and left on the tick the demand came.
C4_Witness ==
    /\ serialLast = <<"State Change: ", NS_GREEN, NS_YELLOW>>
    /\ elapsedTime = MaxElapsed
    /\ ew_sensor_active /\ ~emergency_active

\* C5 (emergency safety path): on a tick of loop() with emergency requested
\* and no reset, EW_GREEN becomes EW_YELLOW, EW_YELLOW is kept until
\* YELLOW_MS have elapsed and then becomes EMERGENCY_TRANS, EMERGENCY_TRANS
\* is kept until EMERGENCY_WAIT_MS have elapsed and then becomes
\* EMERGENCY_GREEN, and EMERGENCY_GREEN is kept.
C5_EmergencyPath ==
    [][(CppTick /\ emergency_active') =>
            /\ current_state = EW_GREEN => current_state' = EW_YELLOW
            /\ current_state = EW_YELLOW =>
                 current_state' = IF elapsedTime' >= YELLOW_MS
                                  THEN EMERGENCY_TRANS ELSE EW_YELLOW
            /\ current_state = EMERGENCY_TRANS =>
                 current_state' = IF elapsedTime' >= EMERGENCY_WAIT_MS
                                  THEN EMERGENCY_GREEN ELSE EMERGENCY_TRANS
            /\ current_state = EMERGENCY_GREEN =>
                 current_state' = EMERGENCY_GREEN]_vars

\* Witness of C5: EMERGENCY_GREEN entered from EMERGENCY_TRANS once
\* EMERGENCY_WAIT_MS had elapsed.
C5_Witness ==
    /\ serialLast = <<"State Change: ", EMERGENCY_TRANS, EMERGENCY_GREEN>>
    /\ emergency_active
    /\ elapsedTime >= EMERGENCY_WAIT_MS

\* C6 (emergency resume): from EMERGENCY_GREEN, a tick without emergency and
\* without reset gives NS_GREEN on that tick, whatever the demand and the
\* elapsed time, and the lamps stay NS-green-only.
C6_EmergencyResume ==
    [][/\ (CppTick /\ current_state = EMERGENCY_GREEN /\ ~emergency_active') =>
            /\ current_state' = NS_GREEN
            /\ pinOut = NsGreenOnly
            /\ pinOut' = NsGreenOnly
       /\ (HwTick /\ hw_current_state = EMERGENCY_GREEN /\ emergency' = 0) =>
            /\ hw_current_state' = NS_GREEN
            /\ light(hw_current_state) = 1
            /\ light(hw_current_state') = 1]_vars

\* Witness of C6: the emergency ended and NS_GREEN was resumed with EW
\* demand waiting.
C6_Witness ==
    /\ serialLast = <<"State Change: ", EMERGENCY_GREEN, NS_GREEN>>
    /\ current_state = NS_GREEN
    /\ ew_sensor_active
    /\ pinOut = NsGreenOnly

\* C7 (liveness of a waiting approach): while NS has the green, if from some
\* tick on the EW demand is present on every tick and neither reset nor
\* emergency is requested, EW_GREEN is reached; symmetrically for NS demand
\* while EW has the green.  (The input variables hold what the last tick
\* sampled.)
C7_WaitingApproachServed ==
    /\ (driver = "cpp" /\ current_state = NS_GREEN)
          ~> (current_state = EW_GREEN \/ reset_active \/ emergency_active
                \/ ~ew_sensor_active)
    /\ (driver = "cpp" /\ current_state = EW_GREEN)
          ~> (current_state = NS_GREEN \/ reset_active \/ emergency_active
                \/ ~ns_sensor_active)
    /\ (driver = "hw" /\ hw_current_state = NS_GREEN)
          ~> (hw_current_state = EW_GREEN \/ reset = 1 \/ emergency = 1
                \/ hw_ew_sensor_active(traffic_sensors) = 0)
    /\ (driver = "hw" /\ hw_current_state = EW_GREEN)
          ~> (hw_current_state = NS_GREEN \/ reset = 1 \/ emergency = 1
                \/ hw_ns_sensor_active(traffic_sensors) = 0)

\* Witness of C7: EW_GREEN just entered with EW demand present and no NS
\* demand, no reset and no emergency.
C7_Witness ==
    /\ current_state = EW_GREEN /\ sinceStateStart = 0
    /\ ew_sensor_active /\ ~ns_sensor_active
    /\ ~reset_active /\ ~emergency_active

\* C8 (emergency priority): if from some tick on emergency is requested on
\* every tick and reset never is, EMERGENCY_GREEN is reached whatever the
\* demand; and a tick with emergency requested and no reset keeps
\* EMERGENCY_GREEN, with the NS-green-only lamps.
C8_EmergencyPriority ==
    /\ (driver = "cpp" /\ emergency_active /\ ~reset_active)
          ~> (current_state = EMERGENCY_GREEN \/ ~emergency_active
                \/ reset_active)
    /\ (driver = "hw" /\ emergency = 1 /\ reset = 0)
          ~> (hw_current_state = EMERGENCY_GREEN \/ emergency = 0
                \/ reset = 1)
    /\ [][/\ (CppTick /\ emergency_active' /\
                current_state = EMERGENCY_GREEN) =>
               (current_state' = EMERGENCY_GREEN /\ pinOut' = NsGreenOnly)
          /\ (HwTick /\ emergency' = 1 /\
                hw_current_state = EMERGENCY_GREEN) =>
               (hw_current_state' = EMERGENCY_GREEN /\
                light(hw_current_state') = 1)]_vars

\* Witness of C8: EMERGENCY_GREEN held for longer than NS_GREEN_MS with both
\* approaches demanding.
C8_Witness ==
    /\ current_state = EMERGENCY_GREEN
    /\ sinceStateStart > NS_GREEN_MS
    /\ emergency_active /\ ns_sensor_active /\ ew_sensor_active

\* The lamp pattern of simulation.cpp as the vector light of
\* Traffic_Controller.v: [3]:EW_Y, [2]:EW_G, [1]:NS_Y, [0]:NS_G.
PinsAsLight(level) ==
    (IF level[LIGHT_NS_G_PIN] = HIGH THEN 1 ELSE 0)
    + (IF level[LIGHT_NS_Y_PIN] = HIGH THEN 2 ELSE 0)
    + (IF level[LIGHT_EW_G_PIN] = HIGH THEN 4 ELSE 0)
    + (IF level[LIGHT_EW_Y_PIN] = HIGH THEN 8 ELSE 0)

\* C9 (driver equivalence): run side by side on identical inputs, one
\* iteration of loop() per clock cycle, the two controllers are in the same
\* state and show the same lamps after every tick.
C9_DriversAgree ==
    driver = "pair" =>
        /\ current_state = hw_current_state
        /\ PinsAsLight(pinOut) = light(hw_current_state)

\* C10 as stated: for a state value outside the seven defined states the
\* lamps are all off and the next state is INIT, whatever the inputs.
C10_UnknownToInit ==
    (fn_next # NoResult /\ fn_state \notin StateType) =>
        /\ fn_pins = <<AllOff>>
        /\ fn_light = <<0>>
        /\ fn_next = <<INIT>>
        /\ fn_hw_next = <<INIT>>

\* C10 (fail-safe default), amended: for a state value outside the seven
\* defined states the lamps are all off, and the next state is INIT when
\* emergency is not requested and EMERGENCY_GREEN when it is, whatever the
\* demands and the elapsed time.
C10_FailSafeDefault ==
    (fn_next # NoResult /\ fn_state \notin StateType) =>
        /\ fn_pins = <<AllOff>>
        /\ fn_light = <<0>>
        /\ fn_next = <<IF fn_inputs.em THEN EMERGENCY_GREEN ELSE INIT>>
        /\ fn_hw_next = <<IF fn_inputs.em THEN EMERGENCY_GREEN ELSE INIT>>

\* Witness of C10: the functions applied to the undefined value 7 with
\* emergency requested and a lamp on beforehand.
C10_Witness ==
    /\ fn_state = 7
    /\ fn_inputs.em
    /\ fn_inputs.level # AllOff
    /\ fn_next = <<EMERGENCY_GREEN>>
    /\ fn_pins = <<AllOff>>


\* The lamp patterns updateLights() can drive.
LampPatterns == {updateLights(AllOff, cs) : cs \in StateType}

\* C11 (emergency flashing mode, as the README's feature list has it): while
\* the emergency input stays asserted and reset is not requested, the lamps
\* flash, that is, no lamp pattern is held for ever: whatever pattern the
\* lamps show, a later tick shows a different one.
C11_EmergencyFlashing ==
    \A pattern \in LampPatterns :
        (driver = "cpp" /\ emergency_active /\ ~reset_active
            /\ pinOut = pattern)
          ~> (pinOut # pattern \/ ~emergency_active \/ reset_active)

NsYellowOnly == [p \in LightPins |-> IF p = LIGHT_NS_Y_PIN THEN HIGH ELSE LOW]

\* C12 (example trace): after a tick with reset requested, on every following
\* tick with no input asserted, up to NS_GREEN_MS - 1 ms on the clock of the
\* state, the state is NS_GREEN and the lamps are NS-green-only; the tick
\* that then finds EW demand with the clock at NS_GREEN_MS changes the state
\* to NS_YELLOW with only the NS yellow lamp on.
C12_ExampleTrace ==
    /\ script = "quiet" =>
          /\ current_state = NS_GREEN
          /\ pinOut = NsGreenOnly
    /\ script = "demand" =>
          /\ elapsedTime = NS_GREEN_MS
          /\ serialLast = <<"State Change: ", NS_GREEN, NS_YELLOW>>
          /\ current_state = NS_YELLOW
          /\ pinOut = NsYellowOnly

\* Witness of C12: the demand tick has acted, with the clock at NS_GREEN_MS.
C12_Witness ==
    /\ script = "demand"
    /\ ew_sensor_active /\ ~ns_sensor_active
    /\ elapsedTime = NS_GREEN_MS
    /\ sinceStateStart = 0

\* C13 (timed exit of EMERGENCY_TRANS, normal branch): in EMERGENCY_TRANS a
\* tick without emergency and without reset changes the state to NS_GREEN
\* only if the wait of the state is over (EMERGENCY_WAIT_MS elapsed;
\* state_timer at 0), and otherwise keeps EMERGENCY_TRANS.
C13_TransitionExitTimed ==
    [][/\ (CppTick /\ ~emergency_active' /\
                current_state = EMERGENCY_TRANS) =>
            current_state' = IF elapsedTime' >= EMERGENCY_WAIT_MS
                             THEN NS_GREEN ELSE EMERGENCY_TRANS
       /\ (HwTick /\ emergency' = 0 /\
                hw_current_state = EMERGENCY_TRANS) =>
            hw_current_state' = IF state_timer = 0
                                THEN NS_GREEN ELSE EMERGENCY_TRANS]_vars

\* C14 (Traffic_Controller.v waits out the EW yellow under emergency): on a
\* clock edge with emergency high and reset low, EW_GREEN goes to EW_YELLOW,
\* EW_YELLOW is kept until its YELLOW_CYCLES are over (state_timer at 0) and
\* only then left for EMERGENCY_TRANS, and EMERGENCY_TRANS is kept until its
\* EMERGENCY_WAIT cycles are over and only then left for EMERGENCY_GREEN.
C14_HwWaitsOutYellow ==
    [][(HwTick /\ emergency' = 1) =>
            /\ hw_current_state = EW_GREEN => hw_current_state' = EW_YELLOW
            /\ hw_current_state = EW_YELLOW =>
                 hw_current_state' = IF state_timer = 0
                                     THEN EMERGENCY_TRANS ELSE EW_YELLOW
            /\ hw_current_state = EMERGENCY_TRANS =>
                 hw_current_state' = IF state_timer = 0
                                     THEN EMERGENCY_GREEN
                                     ELSE EMERGENCY_TRANS]_vars

\* C15 (the emergency branch ignores demand): on a tick with emergency and
\* without reset, the state, the clock of the state and the lamps after the
\* tick are those that the same tick would give with any other values of the
\* NS and EW demand.
C15_EmergencyIgnoresDemand ==
    [][/\ (CppTick /\ emergency_active') =>
            \A ns \in BOOLEAN, ew \in BOOLEAN :
                LET nx == NextStateLogic(current_state, elapsedTime',
                                         TRUE, ns, ew)
                IN  /\ current_state' = nx
                    /\ sinceStateStart' =
                          IF nx # current_state THEN 0 ELSE elapsedTime'
                    /\ pinOut' = IF nx # current_state
                                 THEN updateLights(pinOut, nx) ELSE pinOut
       /\ (HwTick /\ emergency' = 1) =>
            \A s \in SensorValues :
                LET nx == hw_next_state(hw_current_state, state_timer, 1, s)
                IN  /\ hw_current_state' = nx
                    /\ state_timer' =
                          IF nx # hw_current_state THEN timer_load(nx)
                          ELSE IF state_timer # 0 THEN state_timer - 1
                          ELSE state_timer
                    /\ light(hw_current_state') = light(nx)]_vars

\* Witness of C15: an emergency tick taken with both demands present has
\* moved EW_GREEN to EW_YELLOW before EW_GREEN_MS, where the demands alone
\* would have kept EW_GREEN.
C15_Witness ==
    /\ serialLast = <<"State Change: ", EW_GREEN, EW_YELLOW>>
    /\ current_state = EW_YELLOW
    /\ emergency_active /\ ~reset_active
    /\ ns_sensor_active /\ ew_sensor_active
    /\ elapsedTime < EW_GREEN_MS

\* A step of loop(), on the reset path or not.
CppStep == driver = "cpp"

\* C16 as stated (phase clock): the time elapsed since state entry is never
\* negative, every tick that changes the state, a reset-forced change
\* included, leaves it at 0, and a tick that does not change the state
\* neither sets it back to 0 nor decreases it.
C16_ClockZeroOnEveryChange ==
    [][CppStep =>
            /\ sinceStateStart' >= 0
            /\ current_state' # current_state => sinceStateStart' = 0
            /\ current_state' = current_state =>
                 /\ sinceStateStart' >= sinceStateStart
                 /\ sinceStateStart > 0 => sinceStateStart' # 0]_vars

\* C16 (phase clock, amended): the time elapsed since state entry is never
\* negative; a tick without reset leaves it at 0 if it changes the state and
\* otherwise at the elapsed time it computed, which is not less than before
\* (so it is not set back to 0); a tick with reset restarts the clock whether
\* or not the state changes and returns RESET_HOLD_MS later, so the clock
\* then reads RESET_HOLD_MS.
C16_PhaseClock ==
    [][CppStep =>
            /\ sinceStateStart' >= 0
            /\ elapsedTime' >= 0
            /\ (~reset_active' /\ current_state' # current_state) =>
                 sinceStateStart' = 0
            /\ (~reset_active' /\ current_state' = current_state) =>
                 /\ sinceStateStart' = elapsedTime'
                 /\ sinceStateStart' >= sinceStateStart
                 /\ sinceStateStart > 0 => sinceStateStart' # 0
            /\ reset_active' =>
                 /\ current_state' = INIT
                 /\ sinceStateStart' = Min(RESET_HOLD_MS, MaxElapsed)]_vars

\* Witness of C16: a tick has changed the state and left the clock at 0
\* after the previous state had been held for its whole duration.
C16_Witness ==
    /\ driver = "cpp"
    /\ serialLast = <<"State Change: ", EW_GREEN, EW_YELLOW>>
    /\ ~reset_active /\ ~emergency_active
    /\ sinceStateStart = 0
    /\ elapsedTime >= EW_GREEN_MS

\* C17 (outputs track the state): in simulation.cpp, when setup() and every
\* iteration of loop() return (reset path, state change, no state change),
\* the four light pins carry the pattern updateLights() gives for
\* current_state, never that of an earlier state.
C17_OutputsTrackState ==
    driver = "cpp" => pinOut = updateLights(AllOff, current_state)

\* Witness of C17: an iteration without state change has followed the one
\* that entered EW_YELLOW, and the EW yellow lamp alone is on.
C17_Witness ==
    /\ driver = "cpp"
    /\ current_state = EW_YELLOW
    /\ sinceStateStart > 0
    /\ pinOut[LIGHT_EW_Y_PIN] = HIGH
    /\ pinOut[LIGHT_EW_G_PIN] = LOW

\* The state that follows cs in the normal cycle.
CycleSuccessor(cs) ==
    CASE cs = INIT -> NS_GREEN
      [] cs = NS_GREEN -> NS_YELLOW
      [] cs = NS_YELLOW -> EW_GREEN
      [] cs = EW_GREEN -> EW_YELLOW
      [] cs = EW_YELLOW -> NS_GREEN
      [] OTHER -> cs

CycleStates == {INIT, NS_GREEN, NS_YELLOW, EW_GREEN, EW_YELLOW}

\* C18 (normal cycle order): from INIT, NS_GREEN, NS_YELLOW, EW_GREEN or
\* EW_YELLOW, a tick without reset and without emergency and with both
\* demands present either keeps the state (its duration is not over) or
\* moves it to its successor in the cycle INIT, NS_GREEN, NS_YELLOW,
\* EW_GREEN, EW_YELLOW, NS_GREEN, ... (its duration is over); so on a run
\* from INIT with such ticks only no emergency state is entered and INIT is
\* not entered again.
C18_NormalCycleOrder ==
    [][/\ (CppTick /\ ~emergency_active' /\ ns_sensor_active'
                /\ ew_sensor_active' /\ current_state \in CycleStates) =>
            /\ current_state' =
                  IF elapsedTime' >= Duration(current_state)
                  THEN CycleSuccessor(current_state) ELSE current_state
            /\ current_state' \in CycleStates
            /\ current_state' = INIT => current_state = INIT
       /\ (HwTick /\ emergency' = 0
                /\ hw_ns_sensor_active(traffic_sensors') = 1
                /\ hw_ew_sensor_active(traffic_sensors') = 1
                /\ hw_current_state \in CycleStates) =>
            /\ hw_current_state' =
                  IF hw_current_state = INIT \/ state_timer = 0
                  THEN CycleSuccessor(hw_current_state)
                  ELSE hw_current_state
            /\ hw_current_state' \in CycleStates
            /\ hw_current_state' # INIT]_vars

\* Witness of C18: with both demands present the cycle has closed, EW_YELLOW
\* handing over to NS_GREEN.
C18_Witness ==
    /\ serialLast = <<"State Change: ", EW_YELLOW, NS_GREEN>>
    /\ current_state = NS_GREEN
    /\ ~emergency_active /\ ~reset_active
    /\ ns_sensor_active /\ ew_sensor_active

\* C19 (EW green only after a full NS yellow): in simulation.cpp, with any
\* resets, emergencies and demands, a tick that enters EW_GREEN is a tick
\* without reset and without emergency that leaves NS_YELLOW, with the NS
\* yellow lamp on, YELLOW_MS or more after NS_YELLOW was entered; EW_GREEN
\* is entered from no other state.
C19_EwGreenAfterNsYellow ==
    [][(CppStep /\ current_state' = EW_GREEN /\ current_state # EW_GREEN) =>
            /\ current_state = NS_YELLOW
            /\ pinOut = NsYellowOnly
            /\ ~reset_active' /\ ~emergency_active'
            /\ elapsedTime' >= YELLOW_MS]_vars

\* Witness of C19: EW_GREEN has just been entered from NS_YELLOW, exactly
\* YELLOW_MS after NS_YELLOW was entered.
C19_Witness ==
    /\ serialLast = <<"State Change: ", NS_YELLOW, EW_GREEN>>
    /\ current_state = EW_GREEN
    /\ sinceStateStart = 0
    /\ elapsedTime = YELLOW_MS
    /\ pinOut[LIGHT_EW_G_PIN] = HIGH

\* C20 as stated (green hand-over from EW to NS): in every execution of
\* simulation.cpp, reset ticks included, when the NS green lamp comes on
\* after the EW green lamp has been on, the EW yellow lamp has been on for
\* YELLOW_MS or more in between.
C20_EwYellowBeforeNsGreen ==
    (driver = "cpp" /\ pinOut[LIGHT_NS_G_PIN] = HIGH) =>
        handover \in {"none", "cleared"}

\* C20 (green hand-over from EW to NS, amended): when the NS green lamp
\* comes on after the EW green lamp has been on and no reset was requested
\* before the EW yellow had been on for YELLOW_MS, the EW yellow lamp has
\* been on for YELLOW_MS or more in between; a reset requested earlier turns
\* the lamps off and the NS green lamp may follow without that yellow.
C20_GreenHandover ==
    (driver = "cpp" /\ pinOut[LIGHT_NS_G_PIN] = HIGH) =>
        handover \in {"none", "cleared", "reset"}

\* Witness of C20: the NS green lamp has come on, for an emergency, after
\* the EW green lamp and YELLOW_MS or more of EW yellow.
C20_Witness ==
    /\ driver = "cpp"
    /\ handover = "cleared"
    /\ current_state = EMERGENCY_GREEN
    /\ pinOut = NsGreenOnly
    /\ serialLast = <<"State Change: ", EMERGENCY_TRANS, EMERGENCY_GREEN>>

\* The two states that serve an emergency.
EmergencyStates == {EMERGENCY_TRANS, EMERGENCY_GREEN}

\* C21 (emergency states exist only under an emergency request): in
\* simulation.cpp, after every tick that found emergency not requested the
\* state is neither EMERGENCY_TRANS nor EMERGENCY_GREEN, and a tick that
\* enters EMERGENCY_TRANS or EMERGENCY_GREEN is a tick that found emergency
\* requested and reset not requested.
C21_EmergencyStatesUnderRequest ==
    [][CppStep =>
            /\ ~emergency_active' => current_state' \notin EmergencyStates
            /\ (current_state' \in EmergencyStates
                    /\ current_state' # current_state) =>
                 (emergency_active' /\ ~reset_active')]_vars

\* Witness of C21: the emergency was released right after EMERGENCY_TRANS
\* was entered, and that tick left EMERGENCY_TRANS before its wait was over.
C21_Witness ==
    /\ driver = "cpp"
    /\ serialLast = <<"State Change: ", EMERGENCY_TRANS, NS_GREEN>>
    /\ ~emergency_active /\ ~reset_active
    /\ elapsedTime < EMERGENCY_WAIT_MS
    /\ current_state \notin EmergencyStates

===========================================================================